---- MODULE Spec2Model ----
(***************************************************************************)
(* Model of the uni plugin manager (src/src/main.rs): the plugin registry  *)
(* directory, admission (validate_and_copy), removal, enumeration, the     *)
(* dynamic command tree handed to clap, plugin dispatch, and the export /  *)
(* import bundle codec.                                                    *)
(*                                                                         *)
(* A file name is the tuple of its dot-separated parts: "p" is <<"p">>,    *)
(* "p.json" is <<"p","json">>.  format!("{}.json", n) appends a part and   *)
(* Path::extension reads the last one.  Command-line tokens are file names *)
(* too, so a plugin called "p.json" can be typed on the command line.      *)
(***************************************************************************)
EXTENDS Naturals, Sequences, FiniteSets, TLC

VARIABLES
    files,      \* the registry directory: file name -> [bytes, exec]
    archive,    \* the zip at plugins.zip: NoArchive or entry name -> bytes
    pc,         \* per invocation: where it stands in main
    argv,       \* per invocation: the command-line tokens after the program name
    tree,       \* per invocation: manifests build_cli read for the command tree
    cur,        \* per invocation: the candidate validate_and_copy is working on
    man,        \* per invocation: the Manifest parsed from the candidate's stdout
    todo,       \* per invocation: import's extracted entries not yet visited
    report,     \* per invocation: import's per-entry outcomes, in visiting order
    ran,        \* per invocation: the child process dispatch ran, if any
    out,        \* per invocation: what it printed (list's lines, diagnostics)
    trace,      \* per invocation: the steps of main it has taken so far
    exit,       \* per invocation: the manager's exit code, once it has ended
    pre         \* per invocation: the registry as it was when the invocation began

vars == <<files, archive, pc, argv, tree, cur, man, todo, report, ran, out, trace,
          exit, pre>>

(* ------------------------------ bounds -------------------------------- *)

\* longest sequence of tokens typed after a plugin's name
MaxTrailing == 2

(* ------------------------------ names --------------------------------- *)

Procs == {"A", "B"}

P    == <<"p">>
PJ   == <<"p", "json">>
LIST == <<"list">>
RUN  == <<"run">>
ZIP  == <<"plugins", "zip">>

Sidecar(name) == Append(name, "json")

\* Path::extension: the part after the last dot; none for a name without a
\* dot or for a dot-file with a single dot (".json")
Extension(f) ==
    IF Len(f) < 2 \/ (Len(f) = 2 /\ f[1] = "") THEN "" ELSE f[Len(f)]

IsJsonPath(f) == Extension(f) = "json"

BuiltIn == << <<"add">>, <<"remove">>, <<"list">>, <<"create">>,
              <<"export">>, <<"import">>, <<"ensure-python">> >>

Range(s) == {s[i] : i \in DOMAIN s}

BuiltInNames == Range(BuiltIn)

(* ----------------------------- manifest ------------------------------- *)

SubCmdMeta(n, d) == [name |-> n, description |-> d]

Manifest(n, d, v, c) == [name |-> n, description |-> d, version |-> v, commands |-> c]

\* the text of a JSON object, of a script, of anything else
JsonText(o) == [kind |-> "json", obj |-> o]
PyText(i)   == [kind |-> "py", id |-> i]
JunkText    == [kind |-> "junk"]
NoBytes     == [kind |-> "empty"]

\* serde_json::to_vec_pretty(&manifest): all four fields are written
to_vec_pretty(m) ==
    JsonText([name |-> m.name, description |-> m.description,
              version |-> m.version, commands |-> m.commands])

\* serde_json::from_slice::<Manifest>: name, description and version are
\* required, commands is #[serde(default)]
from_slice(b) ==
    IF b.kind = "json" /\ {"name", "description", "version"} \subseteq DOMAIN b.obj
    THEN [ok |-> TRUE,
          m  |-> Manifest(b.obj.name, b.obj.description, b.obj.version,
                          IF "commands" \in DOMAIN b.obj THEN b.obj.commands ELSE <<>>)]
    ELSE [ok |-> FALSE]

(* ------------------------- the user's scripts -------------------------- *)

\* What each script prints and how it exits when run with --manifest.
\* s1: plugin p, one subcommand.  s2: plugin p again, newer, no "commands"
\* key, exits non-zero.  s3: plugin "p.json".  s4: plugin "list".
\* s5: prints no Manifest.
Stdout(id) ==
    CASE id = "s1" -> JsonText([name |-> P, description |-> "d", version |-> "1",
                                commands |-> <<SubCmdMeta(RUN, "r")>>])
      [] id = "s2" -> JsonText([name |-> P, description |-> "d", version |-> "2"])
      [] id = "s3" -> JsonText([name |-> PJ, description |-> "d", version |-> "1",
                                commands |-> <<>>])
      [] id = "s4" -> JsonText([name |-> LIST, description |-> "d", version |-> "1",
                                commands |-> <<>>])
      [] OTHER     -> JunkText

ExitOk(id) == id \in {"s1", "s3", "s4", "s5"}

\* the files in the user's working directory that `add` is pointed at
CwdFiles ==
    (<<"one", "py">>   :> [bytes |-> PyText("s1"), exec |-> TRUE])  @@
    (<<"two", "py">>   :> [bytes |-> PyText("s2"), exec |-> FALSE]) @@
    (<<"three", "py">> :> [bytes |-> PyText("s3"), exec |-> TRUE])  @@
    (<<"four", "py">>  :> [bytes |-> PyText("s4"), exec |-> TRUE])  @@
    (<<"five", "py">>  :> [bytes |-> PyText("s5"), exec |-> TRUE])

\* `uv run <path> --manifest`: a script prints what it prints; anything that
\* is not a script fails in the interpreter and prints nothing
Introspect(b) ==
    IF b.kind = "py"
    THEN [success |-> ExitOk(b.id), stdout |-> Stdout(b.id)]
    ELSE [success |-> FALSE, stdout |-> NoBytes]

(* --------------------------- the file system --------------------------- *)

EmptyDir == [f \in {} |-> NoBytes]

NoArchive == [none |-> TRUE]

Exists(dir, f) == f \in DOMAIN dir

PutFile(dir, f, v) == [g \in DOMAIN dir \cup {f} |-> IF g = f THEN v ELSE dir[g]]

\* fs::copy(src, dest): dest gets the bytes and the permission bits of src
fs_copy(dir, src, dest) == PutFile(dir, dest, src)

\* fs::metadata + set_mode(0o755) + fs::set_permissions
set_permissions(dir, f) == PutFile(dir, f, [bytes |-> dir[f].bytes, exec |-> TRUE])

\* fs::write: create (mode 0644) or truncate (mode kept), then write
fs_write(dir, f, b) ==
    PutFile(dir, f, [bytes |-> b, exec |-> IF Exists(dir, f) THEN dir[f].exec ELSE FALSE])

\* fs::remove_file
remove_file(dir, f) == [g \in DOMAIN dir \ {f} |-> dir[g]]

\* the entries of a directory in the order read_dir happens to give them
RECURSIVE DirOrder(_)
DirOrder(S) ==
    IF S = {} THEN <<>>
    ELSE LET f == CHOOSE g \in S : TRUE IN <<f>> \o DirOrder(S \ {f})

(* ----------------------------- enumeration ----------------------------- *)

\* load_manifests: every *.json that can be read and parsed, the rest skipped
load_manifests(dir) ==
    LET good == {f \in DOMAIN dir : IsJsonPath(f) /\ from_slice(dir[f].bytes).ok}
        ord  == DirOrder(good)
    IN  [i \in 1..Len(ord) |-> from_slice(dir[ord[i]].bytes).m]

\* list_plugins: one line per *.json; the first one that does not parse ends
\* the listing with an error (the `?` on serde_json::from_slice)
RECURSIVE ListLines(_, _)
ListLines(dir, ord) ==
    IF ord = <<>> THEN [ok |-> TRUE, lines |-> <<>>]
    ELSE IF ~IsJsonPath(ord[1]) THEN ListLines(dir, Tail(ord))
    ELSE LET r == from_slice(dir[ord[1]].bytes) IN
         IF ~r.ok THEN [ok |-> FALSE, lines |-> <<>>]
         ELSE LET rest == ListLines(dir, Tail(ord)) IN
              [ok |-> rest.ok,
               lines |-> <<[name |-> r.m.name, version |-> r.m.version,
                            description |-> r.m.description]>> \o rest.lines]

list_plugins(dir) == ListLines(dir, DirOrder(DOMAIN dir))

(* ------------------------ the command tree (clap) ---------------------- *)

DASHDASH == <<"--">>
FLAG     == <<"--x">>
FORCE    == <<"--force">>
WORD     == <<"a">>

\* a token clap reads as an option: it starts with a dash and is not "--"
FlagLike == {FLAG, FORCE}

NoName == <<>>

ClapError == [kind |-> "error", name |-> NoName, sub |-> NoName,
              args |-> <<>>, argsDefined |-> FALSE]

Matched(k, n, s, a, d) == [kind |-> k, name |-> n, sub |-> s, args |-> a, argsDefined |-> d]

\* Arg::new("args").num_args(..).trailing_var_arg(true), without
\* allow_hyphen_values: nothing typed gives no values; a leading "--" is the
\* escape and is dropped; a leading option-like token is an unknown argument;
\* once the first value is taken everything after it is taken verbatim
TrailingVarArg(toks) ==
    IF toks = <<>> THEN [ok |-> TRUE, args |-> <<>>]
    ELSE IF toks[1] = DASHDASH THEN [ok |-> TRUE, args |-> Tail(toks)]
    ELSE IF toks[1] \in FlagLike THEN [ok |-> FALSE, args |-> <<>>]
    ELSE [ok |-> TRUE, args |-> toks]

\* the positionals of the built-ins (BuiltIn enum): add <path>, remove <name>,
\* list, create <name>, export [file], import <file>, ensure-python [--force]
BuiltInMatch(name, rest) ==
    LET n     == Len(rest)
        flags == {i \in 1..n : rest[i] \in FlagLike \cup {DASHDASH}}
        ok    == CASE name \in {<<"add">>, <<"remove">>, <<"create">>, <<"import">>}
                        -> n = 1 /\ flags = {}
                   [] name = <<"list">>   -> n = 0
                   [] name = <<"export">> -> n <= 1 /\ flags = {}
                   [] OTHER               -> n = 0 \/ rest = <<FORCE>>
    IN  IF ok THEN Matched("builtin", name, NoName,
                           IF name = <<"export">> /\ n = 0 THEN <<ZIP>> ELSE rest, TRUE)
        ELSE ClapError

\* the node build_cli makes of one manifest, matched against what follows
\* the plugin's name
PluginMatch(m, rest) ==
    LET subs == {i \in 1..Len(m.commands) : rest # <<>> /\ m.commands[i].name = rest[1]}
    IN  IF m.commands = <<>>
        THEN LET t == TrailingVarArg(rest) IN
             IF t.ok THEN Matched("plugin", m.name, NoName, t.args, TRUE) ELSE ClapError
        ELSE IF rest = <<>> \/ rest = <<DASHDASH>>
        THEN Matched("plugin", m.name, NoName, <<>>, FALSE)
        ELSE IF subs # {}
        THEN LET t == TrailingVarArg(Tail(rest)) IN
             IF t.ok THEN Matched("plugin", m.name, rest[1], t.args, TRUE) ELSE ClapError
        ELSE ClapError

\* build_cli().get_matches(): the built-ins come first in the tree and the
\* first subcommand of a name wins
get_matches(manifests, toks) ==
    IF toks = <<>> THEN Matched("none", NoName, NoName, <<>>, FALSE)
    ELSE IF toks[1] \in BuiltInNames THEN BuiltInMatch(toks[1], Tail(toks))
    ELSE LET hits == {i \in 1..Len(manifests) : manifests[i].name = toks[1]} IN
         IF hits = {} THEN ClapError
         ELSE PluginMatch(manifests[CHOOSE i \in hits : \A j \in hits : i <= j], Tail(toks))

(* --------------------------- one invocation ---------------------------- *)

NoCand     == [path |-> NoName, bytes |-> NoBytes, exec |-> FALSE]
NoManifest == [none |-> TRUE]
NoChild    == [none |-> TRUE]
NoExit     == [running |-> TRUE]

\* the diagnostics of main.rs: the eprintln! of validate_and_copy, and an
\* Err as it is printed (by the runtime when main returns it, by
\* import_plugins for an entry it could not admit)
Warned      == [diag |-> "plugin did not return valid manifest"]
Error(what) == [diag |-> "Error", what |-> what]
ExitCode(n) == [code |-> n]

\* what a child process can end with: an exit code, or a signal (no code)
ChildStatuses == {[exited |-> TRUE, code |-> 0], [exited |-> TRUE, code |-> 3],
                  [exited |-> FALSE, code |-> 0]}

Tokens == {WORD, FLAG, RUN, DASHDASH}

TokenSeqs(n) == UNION {[1..k -> Tokens] : k \in 0..n}

\* what the user may type after the program name
Invocations ==
    {<<>>, <<<<"add">>>>, <<<<"list">>>>, <<<<"create">>, P>>, <<<<"export">>>>,
     <<<<"import">>, ZIP>>, <<<<"ensure-python">>>>, <<<<"ensure-python">>, FORCE>>}
    \cup {<< <<"add">>, f >> : f \in DOMAIN CwdFiles}
    \cup {<< <<"remove">>, n >> : n \in {P, PJ, LIST}}
    \cup {<<n>> \o t : n \in {P, PJ, <<"q">>}, t \in TokenSeqs(MaxTrailing)}

Idle(p) == pc[p] = "idle"

\* the match main works on: the tree it built against its own arguments
Match(p) == get_matches(tree[p], argv[p])

Set(v, p, x) == [v EXCEPT ![p] = x]

\* the process takes the step it stands at and moves on to `next`
Goes(p, next) ==
    /\ pc'    = Set(pc, p, next)
    /\ trace' = Set(trace, p, trace[p] \cup {pc[p]})

\* the process ends: Ok(()) out of main is exit code 0, an Err is 1, a clap
\* usage error 2, a panic 101, and exit(n) is n
Ends(p, code) ==
    /\ Goes(p, "done")
    /\ exit' = Set(exit, p, ExitCode(code))

\* a process is started: ensure_plugin_dir (the directory of this model
\* always exists), and the arguments are whatever the user typed
Start(p) ==
    /\ Idle(p)
    /\ \E a \in Invocations : argv' = Set(argv, p, a)
    /\ pc'  = Set(pc, p, "build")
    /\ pre' = Set(pre, p, files)
    /\ UNCHANGED <<files, archive, tree, cur, man, todo, report, ran, out, trace, exit>>

\* debug builds of clap assert that no two subcommands of a command share a
\* name; build_cli adds a plugin called like a built-in all the same
DuplicateNames(manifests) ==
    \E i \in 1..Len(manifests) :
        \/ manifests[i].name \in BuiltInNames
        \/ \E j \in 1..Len(manifests) : j # i /\ manifests[j].name = manifests[i].name

\* the handler main picks for a match: the chain of `if let Some((name, _))`
Handler(m) ==
    CASE m.kind = "plugin"     -> "exec"
      [] m.name = <<"add">>    -> "validate"
      [] m.name = <<"remove">> -> "chk_script"
      [] m.name = <<"list">>   -> "list"
      [] m.name = <<"create">> -> "create"
      [] m.name = <<"export">> -> "export"
      [] m.name = <<"import">> -> "open"
      [] OTHER                 -> "ensure"

\* the list branch without its return: main falls through to dispatch
after_handler_falls(name) == IF name = <<"list">> THEN "exec" ELSE "done"

\* the `return Ok(())` that ends every built-in's branch of main
after_handler(name) == "done"

\* the candidate `add <path>` names
Candidate(path) ==
    IF path \in DOMAIN CwdFiles
    THEN [path |-> path, bytes |-> CwdFiles[path].bytes, exec |-> CwdFiles[path].exec]
    ELSE NoCand

\* build_cli().get_matches(), and main's choice of a handler
Build(p) ==
    /\ pc[p] = "build"
    /\ LET ms == load_manifests(files)
           m  == get_matches(ms, argv[p])
       IN  /\ tree' = Set(tree, p, ms)
           /\ \/ /\ DuplicateNames(ms)
                 /\ Ends(p, 101)
                 /\ UNCHANGED cur
              \/ /\ m.kind = "error"
                 /\ Ends(p, 2)
                 /\ UNCHANGED cur
              \/ /\ m.kind = "none"
                 /\ Ends(p, 0)
                 /\ UNCHANGED cur
              \/ /\ m.kind \in {"builtin", "plugin"}
                 /\ Goes(p, Handler(m))
                 /\ cur' = Set(cur, p, IF m.name = <<"add">> THEN Candidate(m.args[1])
                                       ELSE NoCand)
                 /\ UNCHANGED exit
    /\ UNCHANGED <<files, archive, argv, man, todo, report, ran, out, pre>>

\* a built-in's branch of main is through: it returns Ok(()) or the error
BuiltInEnds(p, code) ==
    /\ Goes(p, IF code = 0 THEN after_handler(Match(p).name) ELSE "done")
    /\ exit' = Set(exit, p, ExitCode(code))

(* -------------------------- validate_and_copy -------------------------- *)

\* a validator that makes up a manifest from the file name when it gets none
validate_fallback(c, started) ==
    IF started /\ from_slice(Introspect(c.bytes).stdout).ok
    THEN from_slice(Introspect(c.bytes).stdout)
    ELSE [ok |-> TRUE, m |-> Manifest(c.path, "", "", <<>>)]

\* a validator for which a run that did not exit with success is a failure
validate_strict(c, started) ==
    IF ~started \/ ~Introspect(c.bytes).success THEN [ok |-> FALSE]
    ELSE from_slice(Introspect(c.bytes).stdout)

\* Cmd::new("uv").arg("run").arg(path).arg("--manifest").output()? and
\* serde_json::from_slice(&out.stdout)?; a non-zero exit is only reported
validate(c, started) ==
    IF ~started THEN [ok |-> FALSE]
    ELSE from_slice(Introspect(c.bytes).stdout)

\* the script kept under the candidate's own file name
dest_script_of_path(m, c) == c.path

\* plugin_dir().join(&manifest.name)
dest_script(m, c) == m.name

\* the sidecar path without its ".json"
dest_meta_no_suffix(m) == m.name

\* plugin_dir().join(format!("{}.json", manifest.name))
dest_meta(m) == Sidecar(m.name)

\* import_plugins with `validate_and_copy(&p)?`: the first failure ends it
return_aborts(p, ok) ==
    IF argv[p][1] = <<"add">> \/ ~ok
    THEN /\ BuiltInEnds(p, IF ok THEN 0 ELSE 1)
         /\ UNCHANGED report
    ELSE /\ Goes(p, "next")
         /\ report' = Set(report, p, report[p] \cup {[entry |-> cur[p].path, ok |-> ok]})
         /\ UNCHANGED exit

\* validate_and_copy returns to its caller: main's add branch ends the
\* process with it, import_plugins notes it and goes on with the next entry
return(p, ok) ==
    IF argv[p][1] = <<"add">>
    THEN /\ BuiltInEnds(p, IF ok THEN 0 ELSE 1)
         /\ UNCHANGED report
    ELSE /\ Goes(p, "next")
         /\ report' = Set(report, p, report[p] \cup {[entry |-> cur[p].path, ok |-> ok]})
         /\ UNCHANGED exit

\* what is printed for the introspection run: the io::Error of a `uv` that
\* could not be started; else the eprintln! for a run that did not exit
\* with success, and the serde error for a stdout that is no Manifest
diagnostics(c, started) ==
    IF ~started THEN <<Error("NotFound")>>
    ELSE (IF Introspect(c.bytes).success THEN <<>> ELSE <<Warned>>)
         \o (IF from_slice(Introspect(c.bytes).stdout).ok THEN <<>> ELSE <<Error("serde")>>)

Validate(p) ==
    /\ pc[p] = "validate"
    /\ \E started \in BOOLEAN :
         LET r == validate(cur[p], started) IN
         /\ out' = Set(out, p, out[p] \o diagnostics(cur[p], started))
         /\ IF r.ok
            THEN /\ man' = Set(man, p, r.m)
                 /\ Goes(p, "copy")
                 /\ UNCHANGED <<report, exit>>
            ELSE /\ return(p, FALSE)
                 /\ UNCHANGED man
    /\ UNCHANGED <<files, archive, argv, tree, cur, todo, ran, pre>>

\* fs::copy(path, &dest_script)?
CopyScript(p) ==
    /\ pc[p] = "copy"
    /\ files' = fs_copy(files, [bytes |-> cur[p].bytes, exec |-> cur[p].exec],
                        dest_script(man[p], cur[p]))
    /\ Goes(p, "chmod")
    /\ UNCHANGED <<archive, argv, tree, cur, man, todo, report, ran, out, exit, pre>>

\* fs::metadata(&dest_script)?, set_mode(0o755), fs::set_permissions(..)?
SetPerm(p) ==
    /\ pc[p] = "chmod"
    /\ LET dest == dest_script(man[p], cur[p]) IN
       IF Exists(files, dest)
       THEN /\ files' = set_permissions(files, dest)
            /\ Goes(p, "meta")
            /\ UNCHANGED <<report, exit>>
       ELSE /\ return(p, FALSE)
            /\ UNCHANGED files
    /\ UNCHANGED <<archive, argv, tree, cur, man, todo, ran, out, pre>>

\* fs::write(dest_meta, serde_json::to_vec_pretty(&manifest)?)?; Ok(manifest)
WriteMeta(p) ==
    /\ pc[p] = "meta"
    /\ files' = fs_write(files, dest_meta(man[p]), to_vec_pretty(man[p]))
    /\ return(p, TRUE)
    /\ UNCHANGED <<archive, argv, tree, cur, man, todo, ran, out, pre>>

(* ---------------------------- remove_plugin ---------------------------- *)

\* the name `remove <name>` was given
RemoveName(p) == Match(p).args[1]

\* remove_file without the exists() guard
always_remove(dir, f) == TRUE

\* `if script.exists()`, `if meta.exists()`
should_remove(dir, f) == Exists(dir, f)

\* if script.exists() {
RmCheckScript(p) ==
    /\ pc[p] = "chk_script"
    /\ Goes(p, IF should_remove(files, RemoveName(p)) THEN "rm_script" ELSE "chk_meta")
    /\ UNCHANGED <<files, archive, argv, tree, cur, man, todo, report, ran, out, exit, pre>>

\* fs::remove_file(script)?; }
RmScript(p) ==
    /\ pc[p] = "rm_script"
    /\ IF Exists(files, RemoveName(p))
       THEN /\ files' = remove_file(files, RemoveName(p))
            /\ Goes(p, "chk_meta")
            /\ UNCHANGED exit
       ELSE /\ BuiltInEnds(p, 1)
            /\ UNCHANGED files
    /\ UNCHANGED <<archive, argv, tree, cur, man, todo, report, ran, out, pre>>

\* if meta.exists() {
RmCheckMeta(p) ==
    /\ pc[p] = "chk_meta"
    /\ IF should_remove(files, Sidecar(RemoveName(p)))
       THEN /\ Goes(p, "rm_meta")
            /\ UNCHANGED exit
       ELSE BuiltInEnds(p, 0)
    /\ UNCHANGED <<files, archive, argv, tree, cur, man, todo, report, ran, out, pre>>

\* fs::remove_file(meta)?; } Ok(())
RmMeta(p) ==
    /\ pc[p] = "rm_meta"
    /\ IF Exists(files, Sidecar(RemoveName(p)))
       THEN /\ files' = remove_file(files, Sidecar(RemoveName(p)))
            /\ BuiltInEnds(p, 0)
       ELSE /\ BuiltInEnds(p, 1)
            /\ UNCHANGED files
    /\ UNCHANGED <<archive, argv, tree, cur, man, todo, report, ran, out, pre>>

(* ------------------- list, create, ensure-python ----------------------- *)

\* list_plugins()?
List(p) ==
    /\ pc[p] = "list"
    /\ LET r == list_plugins(files) IN
       /\ out' = Set(out, p, r.lines)
       /\ BuiltInEnds(p, IF r.ok THEN 0 ELSE 1)
    /\ UNCHANGED <<files, archive, argv, tree, cur, man, todo, report, ran, pre>>

\* create_template: writes <name>.py into the working directory, never into
\* the registry; a failure is printed and main still returns Ok(())
Create(p) ==
    /\ pc[p] = "create"
    /\ BuiltInEnds(p, 0)
    /\ UNCHANGED <<files, archive, argv, tree, cur, man, todo, report, ran, out, pre>>

\* ensure-python: installs an interpreter and uv, never touches the registry,
\* and returns Ok(()) whether or not the installation worked
EnsurePython(p) ==
    /\ pc[p] = "ensure"
    /\ BuiltInEnds(p, 0)
    /\ UNCHANGED <<files, archive, argv, tree, cur, man, todo, report, ran, out, pre>>

(* --------------------------- export / import --------------------------- *)

\* export_plugins: every regular file of the registry becomes one entry,
\* named by its base name, holding its bytes
zip_of(dir) == [f \in DOMAIN dir |-> dir[f].bytes]

\* an export that moves the files into the archive
ExportMoving(p) ==
    /\ pc[p] = "export"
    /\ archive' = zip_of(files)
    /\ files' = EmptyDir
    /\ BuiltInEnds(p, 0)
    /\ UNCHANGED <<argv, tree, cur, man, todo, report, ran, out, pre>>

\* export_plugins(out): File::create, one start_file + write_all per entry
\* of read_dir(plugin_dir()), zip.finish()
Export(p) ==
    /\ pc[p] = "export"
    /\ archive' = zip_of(files)
    /\ BuiltInEnds(p, 0)
    /\ UNCHANGED <<files, argv, tree, cur, man, todo, report, ran, out, pre>>

\* File::open(zip_path)?, ZipArchive::new, tempdir, archive.extract(&tmp)?
ImportOpen(p) ==
    /\ pc[p] = "open"
    /\ IF archive = NoArchive
       THEN /\ BuiltInEnds(p, 1)
            /\ UNCHANGED todo
       ELSE /\ todo' = Set(todo, p, archive)
            /\ Goes(p, "next")
            /\ UNCHANGED exit
    /\ UNCHANGED <<files, archive, argv, tree, cur, man, report, ran, out, pre>>

\* `continue` for an entry import_plugins does not hand to the validator
skipped(f) == IsJsonPath(f)

\* one turn of `for entry in read_dir(&tmp)`, in whatever order the
\* directory gives its entries; Ok(()) when there is none left
ImportNext(p) ==
    /\ pc[p] = "next"
    /\ IF DOMAIN todo[p] = {}
       THEN /\ BuiltInEnds(p, 0)
            /\ UNCHANGED <<todo, cur>>
       ELSE \E e \in DOMAIN todo[p] :
            /\ todo' = Set(todo, p, remove_file(todo[p], e))
            /\ IF skipped(e)
               THEN /\ Goes(p, "next")
                    /\ UNCHANGED cur
               ELSE /\ Goes(p, "validate")
                    /\ cur' = Set(cur, p, [path |-> e, bytes |-> todo[p][e], exec |-> FALSE])
            /\ UNCHANGED exit
    /\ UNCHANGED <<files, archive, argv, tree, man, report, ran, out, pre>>

(* ------------------------------ dispatch ------------------------------- *)

\* argv.push(sname); argv.extend(sm.get_raw("args")) or, with no subcommand
\* matched, argv.extend(pm.get_raw("args"))
forwarded(m) == IF m.sub # NoName THEN <<m.sub>> \o m.args ELSE m.args

\* unwrap_or(0) in place of unwrap_or(1)
exit_code_zero(st) == IF st.exited THEN st.code ELSE 0

\* status.code().unwrap_or(1)
exit_code(st) == IF st.exited THEN st.code ELSE 1

\* the io::Error of Command::status() for a script that cannot be spawned
spawn_error(dir, f) == IF Exists(dir, f) THEN "PermissionDenied" ELSE "NotFound"

\* Cmd::new(plugin_dir().join(pname)).args(&argv).status()?; exit(code).
\* Nothing looks at the script before the spawn: a script that is not there
\* or cannot be executed is the io::Error that `?` returns out of main.
\* get_raw("args") on a plugin node that declares subcommands names an
\* argument the node does not have: a debug build of clap panics there, a
\* release build gives no values.
Dispatch(p) ==
    /\ pc[p] = "exec"
    /\ LET m == Match(p) IN
       \/ /\ ~m.argsDefined
          /\ Ends(p, 101)
          /\ UNCHANGED <<ran, out>>
       \/ /\ ~(Exists(files, m.name) /\ files[m.name].exec)
          /\ out' = Set(out, p, Append(out[p], Error(spawn_error(files, m.name))))
          /\ Ends(p, 1)
          /\ UNCHANGED ran
       \/ /\ Exists(files, m.name) /\ files[m.name].exec
          /\ \E st \in ChildStatuses :
               /\ ran' = Set(ran, p, [bytes |-> files[m.name].bytes,
                                      args |-> forwarded(m), status |-> st])
               /\ Ends(p, exit_code(st))
          /\ UNCHANGED out
    /\ UNCHANGED <<files, archive, argv, tree, cur, man, todo, report, pre>>

(* --------------------------- the whole program ------------------------- *)

\* the process is gone; the next invocation starts from scratch
Exit(p) ==
    /\ pc[p] = "done"
    /\ pc'     = Set(pc, p, "idle")
    /\ argv'   = Set(argv, p, <<>>)
    /\ tree'   = Set(tree, p, <<>>)
    /\ cur'    = Set(cur, p, NoCand)
    /\ man'    = Set(man, p, NoManifest)
    /\ todo'   = Set(todo, p, EmptyDir)
    /\ report' = Set(report, p, {})
    /\ ran'    = Set(ran, p, NoChild)
    /\ out'    = Set(out, p, <<>>)
    /\ trace'  = Set(trace, p, {})
    /\ exit'   = Set(exit, p, NoExit)
    /\ pre'    = Set(pre, p, EmptyDir)
    /\ UNCHANGED <<files, archive>>

Init ==
    /\ files   = EmptyDir
    /\ archive = NoArchive
    /\ pc      = [p \in Procs |-> "idle"]
    /\ argv    = [p \in Procs |-> <<>>]
    /\ tree    = [p \in Procs |-> <<>>]
    /\ cur     = [p \in Procs |-> NoCand]
    /\ man     = [p \in Procs |-> NoManifest]
    /\ todo    = [p \in Procs |-> EmptyDir]
    /\ report  = [p \in Procs |-> {}]
    /\ ran     = [p \in Procs |-> NoChild]
    /\ out     = [p \in Procs |-> <<>>]
    /\ trace   = [p \in Procs |-> {}]
    /\ exit    = [p \in Procs |-> NoExit]
    /\ pre     = [p \in Procs |-> EmptyDir]

\* one step of the invocation p
Step(p) ==
    \/ Build(p)
    \/ Validate(p) \/ CopyScript(p) \/ SetPerm(p) \/ WriteMeta(p)
    \/ RmCheckScript(p) \/ RmScript(p) \/ RmCheckMeta(p) \/ RmMeta(p)
    \/ List(p) \/ Create(p) \/ EnsurePython(p)
    \/ Export(p) \/ ImportOpen(p) \/ ImportNext(p)
    \/ Dispatch(p)
    \/ Exit(p)

\* sequential use: an invocation starts when no other one is running (which
\* of the process slots it takes makes no difference, so it takes the first)
Next ==
    \/ (\A q \in Procs : Idle(q)) /\ Start(CHOOSE p \in Procs : TRUE)
    \/ \E p \in Procs : Step(p)

Spec == Init /\ [][Next]_vars

(* ------------------- concurrent use, and sudden death ------------------ *)

\* the commands two users race with: two admissions under the name p, its
\* removal, a listing, and the dispatch of its subcommand
CoreInvocations ==
    {<<<<"list">>>>, << <<"remove">>, P >>, <<P, RUN>>,
     << <<"add">>, <<"one", "py">> >>, << <<"add">>, <<"two", "py">> >>}

StartCore(p) ==
    /\ Idle(p)
    /\ \E a \in CoreInvocations : argv' = Set(argv, p, a)
    /\ pc'  = Set(pc, p, "build")
    /\ pre' = Set(pre, p, files)
    /\ UNCHANGED <<files, archive, tree, cur, man, todo, report, ran, out, trace, exit>>

StepCore(p) ==
    \/ Build(p)
    \/ Validate(p) \/ CopyScript(p) \/ SetPerm(p) \/ WriteMeta(p)
    \/ RmCheckScript(p) \/ RmScript(p) \/ RmCheckMeta(p) \/ RmMeta(p)
    \/ List(p)
    \/ Dispatch(p)
    \/ Exit(p)

\* two invocations at once: nothing in main.rs takes a lock, so every file
\* operation of one may fall between any two of the other
NextConc == \E p \in Procs : StartCore(p) \/ StepCore(p)

SpecConc == Init /\ [][NextConc]_vars

\* a process that was killed has no exit code
Killed == [signal |-> "KILL"]

\* the process dies where it stands (kill -9, power loss).  The file
\* operation it stood before has not happened, or, for the two that write
\* contents, has created or truncated its file and written nothing yet:
\* fs::copy opens the destination with the source's mode and then copies,
\* fs::write creates or truncates and then writes.
Crash(p) ==
    /\ pc[p] \notin {"idle", "done"}
    /\ \/ UNCHANGED files
       \/ /\ pc[p] = "copy"
          /\ files' = fs_copy(files, [bytes |-> NoBytes, exec |-> cur[p].exec],
                              dest_script(man[p], cur[p]))
       \/ /\ pc[p] = "meta"
          /\ files' = fs_write(files, dest_meta(man[p]), NoBytes)
    /\ pc'    = Set(pc, p, "done")
    /\ trace' = Set(trace, p, trace[p] \cup {"crash"})
    /\ exit'  = Set(exit, p, Killed)
    /\ UNCHANGED <<archive, argv, tree, cur, man, todo, report, ran, out, pre>>

\* sequential use in which an invocation may die at any of its steps
NextCrash ==
    \/ (\A q \in Procs : Idle(q)) /\ StartCore(CHOOSE p \in Procs : TRUE)
    \/ \E p \in Procs : StepCore(p) \/ Crash(p)

SpecCrash == Init /\ [][NextCrash]_vars

(* ------------------------- what the claims speak of -------------------- *)

Cmd(p) == IF argv[p] = <<>> THEN NoName ELSE argv[p][1]

Done(p) == pc[p] = "done"

ExitedWith(p, n) == Done(p) /\ exit[p] = ExitCode(n)

NamesOf(manifests) == {manifests[i].name : i \in 1..Len(manifests)}

\* validate_and_copy has just returned Ok(manifest) to invocation p, for the
\* candidate cur[p] and the manifest man[p], and nothing has run since
Admitted(p) ==
    \/ Cmd(p) = <<"add">> /\ ExitedWith(p, 0) /\ "meta" \in trace[p]
    \/ /\ Cmd(p) = <<"import">> /\ pc[p] \in {"next", "done"}
       /\ [entry |-> cur[p].path, ok |-> TRUE] \in report[p]

\* remove_plugin(name) has just returned Ok(()) to invocation p
Removed(p) == Cmd(p) = <<"remove">> /\ ExitedWith(p, 0)

\* a directory holds the script / the sidecar of the plugin n
HasScript(dir, n)  == Exists(dir, n) /\ dir[n].bytes.kind = "py"
HasSidecar(dir, n) == Exists(dir, Sidecar(n)) /\ from_slice(dir[Sidecar(n)].bytes).ok

\* the directory import_plugins extracts an archive into
Extracted(zip) == [f \in DOMAIN zip |-> [bytes |-> zip[f], exec |-> FALSE]]

(* -------------------------------- claims ------------------------------- *)

\* C1: in sequential use, right after an admission has stored a plugin under
\* the name n with the manifest m, load_manifests returns exactly one
\* manifest named n and it is m; right after remove_plugin(n) has returned
\* Ok, load_manifests returns no manifest named n.
C1_EnumerateAfterPutAndDelete ==
    \A p \in Procs :
        LET ms == load_manifests(files) IN
        /\ Admitted(p) =>
              /\ Cardinality({i \in 1..Len(ms) : ms[i].name = man[p].name}) = 1
              /\ \A i \in 1..Len(ms) : ms[i].name = man[p].name => ms[i] = man[p]
        /\ Removed(p) => RemoveName(p) \notin NamesOf(ms)

\* a removal of a plugin that an earlier admission had made visible
C1_Witness ==
    \E p \in Procs :
        /\ Removed(p)
        /\ RemoveName(p) \in NamesOf(load_manifests(pre[p]))
        /\ HasScript(pre[p], RemoveName(p))

\* what the stored script of a plugin is owed on dispatch: the tokens typed
\* after the plugin's name (after its subcommand's name included), less a
\* leading "--" escape
Declares(p) ==
    {i \in 1..Len(tree[p]) : argv[p] # <<>> /\ tree[p][i].name = argv[p][1]}

Descended(p) ==
    \E i \in Declares(p) :
        /\ Len(argv[p]) >= 2
        /\ \E j \in 1..Len(tree[p][i].commands) : tree[p][i].commands[j].name = argv[p][2]

TypedPlugin(p) ==
    /\ Declares(p) # {}
    /\ argv[p][1] \notin BuiltInNames
    /\ Descended(p) \/ \E i \in Declares(p) : tree[p][i].commands = <<>>

Unescaped(toks) == IF toks # <<>> /\ toks[1] = DASHDASH THEN Tail(toks) ELSE toks

OwedArgv(p) ==
    IF Descended(p)
    THEN <<argv[p][2]>> \o Unescaped(Tail(Tail(argv[p])))
    ELSE Unescaped(Tail(argv[p]))

\* C2 (as claimed): an invocation that names a registered plugin whose
\* stored script can be executed, and one of its declared subcommands if it
\* declares any, runs that script with exactly [subcommand] ++ trailing
\* tokens, or exactly the trailing tokens, flag-like tokens included.
C2_ForwardsTrailingTokens ==
    \A p \in Procs :
        (/\ Done(p) /\ "build" \in trace[p] /\ TypedPlugin(p)
         /\ exit[p] # ExitCode(101)
         /\ Exists(files, argv[p][1]) /\ files[argv[p][1]].exec)
        => /\ ran[p] # NoChild
           /\ ran[p].args = OwedArgv(p)

\* C3: when dispatch has run the child, the manager's exit code is the
\* child's exit code, and 1 when the child ended without one (a signal).
C3_ExitCodeIsTheChilds ==
    \A p \in Procs :
        (Done(p) /\ ran[p] # NoChild) =>
            exit[p] = ExitCode(IF ran[p].status.exited THEN ran[p].status.code ELSE 1)

\* a child killed by a signal
C3_Witness ==
    \E p \in Procs : Done(p) /\ ran[p] # NoChild /\ ~ran[p].status.exited

\* C4: an admission whose introspection run cannot be started, or whose
\* stdout is no Manifest, fails with an error and leaves the registry as it
\* was: `add` ends with exit code 1 and the registry it found; an import
\* whose admissions have all failed so far has noted each failure and the
\* registry is the one it found.
C4_FailedAdmissionChangesNothing ==
    \A p \in Procs :
        /\ (Cmd(p) = <<"add">> /\ Done(p) /\ "validate" \in trace[p]
                /\ ("copy" \notin trace[p] \/ ~from_slice(Introspect(cur[p].bytes).stdout).ok))
           => exit[p] = ExitCode(1) /\ files = pre[p]
        /\ (Cmd(p) = <<"import">> /\ pc[p] \in {"next", "done"}
                /\ "copy" \notin trace[p])
           => /\ files = pre[p]
              /\ \A r \in report[p] : ~r.ok

\* `add five.py` (stdout is no Manifest) has failed on a registry that
\* holds plugins
C4_Witness ==
    \E p \in Procs :
        /\ Cmd(p) = <<"add">> /\ Done(p) /\ "validate" \in trace[p]
        /\ Introspect(cur[p].bytes).stdout = JunkText
        /\ pre[p] # EmptyDir

\* C5: a plugin is admitted under its manifest's name, not under the
\* candidate's file name; an admission under the name of a plugin already
\* admitted succeeds, and then the registry holds one plugin of that name,
\* its script the candidate's bytes (executable) and its sidecar the
\* candidate's manifest.
C5_ReadmissionOverwrites ==
    \A p \in Procs :
        /\ (Cmd(p) = <<"add">> /\ Done(p) /\ "copy" \in trace[p]) => exit[p] = ExitCode(0)
        /\ Admitted(p) =>
              /\ Exists(files, man[p].name)
              /\ files[man[p].name] = [bytes |-> cur[p].bytes, exec |-> TRUE]
              /\ Exists(files, Sidecar(man[p].name))
              /\ files[Sidecar(man[p].name)].bytes = to_vec_pretty(man[p])
              /\ Cardinality({i \in 1..Len(load_manifests(files)) :
                                load_manifests(files)[i].name = man[p].name}) = 1
              /\ cur[p].path # man[p].name =>
                    (Exists(files, cur[p].path) <=> Exists(pre[p], cur[p].path))

\* a second admission under a name whose earlier script and sidecar differ
C5_Witness ==
    \E p \in Procs :
        /\ Cmd(p) = <<"add">> /\ Admitted(p)
        /\ HasScript(pre[p], man[p].name) /\ HasSidecar(pre[p], man[p].name)
        /\ pre[p][man[p].name].bytes # cur[p].bytes
        /\ pre[p][Sidecar(man[p].name)].bytes # to_vec_pretty(man[p])
        /\ cur[p].path # man[p].name

\* the names plugins go by in this model
PluginNames == {P, PJ, LIST}

\* C6 (as claimed): once every add, remove and import has run to its end,
\* for every name n the registry holds the script of n if and only if it
\* holds the sidecar of n.
C6_ScriptAndSidecarTogether ==
    (\A p \in Procs : Idle(p)) =>
        \A n \in PluginNames : HasScript(files, n) <=> HasSidecar(files, n)

\* C7: remove_plugin(n) for a name with neither a script nor a sidecar in
\* the registry returns Ok and leaves the registry as it was.
C7_RemoveMissingIsNoOp ==
    \A p \in Procs :
        (/\ Cmd(p) = <<"remove">> /\ Done(p) /\ "chk_script" \in trace[p]
         /\ ~Exists(pre[p], RemoveName(p))
         /\ ~Exists(pre[p], Sidecar(RemoveName(p))))
        => exit[p] = ExitCode(0) /\ files = pre[p]

\* a removal of a name that is not there, from a registry that holds others
C7_Witness ==
    \E p \in Procs :
        /\ Cmd(p) = <<"remove">> /\ ExitedWith(p, 0)
        /\ ~Exists(pre[p], RemoveName(p))
        /\ ~Exists(pre[p], Sidecar(RemoveName(p)))
        /\ pre[p] # EmptyDir

\* C8 (as claimed): an import into an empty registry, every admission of
\* which succeeded, leaves the registry enumerating the names the exported
\* registry enumerated, each with the script bytes of the archive.
C8_ExportImportRoundTrip ==
    \A p \in Procs :
        (/\ Cmd(p) = <<"import">> /\ ExitedWith(p, 0)
         /\ pre[p] = EmptyDir
         /\ \A r \in report[p] : r.ok)
        => /\ NamesOf(load_manifests(files)) = NamesOf(load_manifests(Extracted(archive)))
           /\ \A n \in NamesOf(load_manifests(files)) :
                 Exists(files, n) /\ n \in DOMAIN archive /\ files[n].bytes = archive[n]

\* C9: an admission failure during import is noted for its entry and does
\* not end the import: when import is through it has handed every entry of
\* the archive that is no sidecar to the validator, and it returns Ok.
C9_ImportGoesOnAfterFailure ==
    \A p \in Procs :
        (Cmd(p) = <<"import">> /\ Done(p) /\ "next" \in trace[p]) =>
            /\ exit[p] = ExitCode(0)
            /\ {r.entry : r \in report[p]} = {e \in DOMAIN archive : ~IsJsonPath(e)}

\* an import through, with one entry failed and another admitted
C9_Witness ==
    \E p \in Procs :
        /\ Cmd(p) = <<"import">> /\ ExitedWith(p, 0)
        /\ \E r \in report[p] : ~r.ok
        /\ \E r \in report[p] : r.ok

\* C10: when the matched top-level command is a built-in, its handler runs
\* and dispatch never does, whatever the registry holds.
C10_BuiltInNeverDispatches ==
    \A p \in Procs :
        (pc[p] \notin {"idle", "build"} /\ Match(p).kind = "builtin") =>
            /\ "exec" \notin trace[p] /\ pc[p] # "exec"
            /\ ran[p] = NoChild
            /\ (Done(p) /\ trace[p] # {"build"}) => Handler(Match(p)) \in trace[p]

\* `list` has run its handler while a plugin called "list" is stored
C10_Witness ==
    \E p \in Procs :
        /\ Cmd(p) = <<"list">> /\ ExitedWith(p, 0) /\ "list" \in trace[p]
        /\ HasScript(files, LIST) /\ HasSidecar(files, LIST)

\* the diagnostic the design asks of dispatch; main.rs has no such text
UnknownCommand == [diag |-> "unknown command or plugin"]

\* C11 (as claimed): when dispatch comes to execute a plugin whose stored
\* script is not in the registry, it prints the "unknown command or plugin"
\* diagnostic and ends with a non-zero exit code, and not with the error of
\* a failed spawn.
C11_DispatchChecksScript ==
    [][\A p \in Procs :
          (/\ pc[p] = "exec" /\ pc'[p] = "done"
           /\ Match(p).argsDefined
           /\ ~Exists(files, Match(p).name))
          => /\ exit'[p] \notin {ExitCode(0), ExitCode(101), Killed}
             /\ UnknownCommand \in Range(out'[p])
             /\ \A e \in Range(out'[p]) : e.diag # "Error"]_vars

\* C12 (as claimed): `add` of a script whose manifest is named like a
\* built-in command fails and leaves the registry as it found it.
C12_BuiltInNameRejected ==
    \A p \in Procs :
        (/\ Cmd(p) = <<"add">> /\ Done(p) /\ "validate" \in trace[p]
         /\ from_slice(Introspect(cur[p].bytes).stdout).ok
         /\ from_slice(Introspect(cur[p].bytes).stdout).m.name \in BuiltInNames)
        => exit[p] # ExitCode(0) /\ files = pre[p]

\* a registry entry in a partial state: one of the two files without the other
Partial(dir, n) == Exists(dir, n) # Exists(dir, Sidecar(n))

\* C13 (as claimed): in sequential use, the command tree an invocation
\* builds, and load_manifests between invocations, hold no manifest for a
\* name whose registry entry is partial (script without sidecar, sidecar
\* without script).
C13_PartialEntryIsAbsent ==
    /\ (\A p \in Procs : Idle(p)) =>
          \A n \in PluginNames :
              Partial(files, n) => n \notin NamesOf(load_manifests(files))
    /\ \A p \in Procs :
          pc[p] \notin {"idle", "build"} =>
              \A n \in PluginNames : Partial(pre[p], n) => n \notin NamesOf(tree[p])

\* the line `list` prints for a manifest
Line(m) == [name |-> m.name, version |-> m.version, description |-> m.description]

\* C14 (as claimed): in sequential use, `list` returns Ok whatever the
\* *.json files of the registry hold, and has printed the line of every
\* sidecar that parses (the manifests load_manifests returns).
C14_ListSkipsBadSidecar ==
    \A p \in Procs :
        (Cmd(p) = <<"list">> /\ Done(p) /\ "list" \in trace[p]) =>
            /\ exit[p] = ExitCode(0)
            /\ {Line(m) : m \in Range(load_manifests(pre[p]))} \subseteq Range(out[p])

\* C15: `add` succeeds if and only if the introspection run could be
\* started and its stdout parses as a Manifest, whatever its exit status; a
\* run that did not exit with success is reported, and when its stdout is a
\* Manifest the plugin is admitted all the same.
C15_ExitStatusIsAdvisory ==
    \A p \in Procs :
        (Cmd(p) = <<"add">> /\ Done(p) /\ "validate" \in trace[p]) =>
            LET run == Introspect(cur[p].bytes) IN
            /\ exit[p] = ExitCode(0) <=>
                  (Error("NotFound") \notin Range(out[p]) /\ from_slice(run.stdout).ok)
            /\ Warned \in Range(out[p]) => ~run.success
            /\ (Warned \in Range(out[p]) /\ from_slice(run.stdout).ok) =>
                  /\ Admitted(p)
                  /\ man[p] = from_slice(run.stdout).m
                  /\ HasScript(files, man[p].name) /\ HasSidecar(files, man[p].name)

\* `add two.py`: the script exits non-zero, prints a Manifest, is admitted
C15_Witness ==
    \E p \in Procs :
        /\ Cmd(p) = <<"add">> /\ Admitted(p)
        /\ ~Introspect(cur[p].bytes).success
        /\ Warned \in Range(out[p])

\* C16: in sequential use the registry is, file for file and byte for byte,
\* what the invocation found when it began: right after the command tree
\* was built, whatever the command, and all through `list` and `export`.
C16_ReadersLeaveRegistry ==
    \A p \in Procs :
        /\ trace[p] = {"build"} => files = pre[p]
        /\ (Cmd(p) \in {<<"list">>, <<"export">>} /\ ~Idle(p)) => files = pre[p]

\* an export of a registry that holds plugins is through
C16_Witness ==
    \E p \in Procs :
        /\ Cmd(p) = <<"export">> /\ ExitedWith(p, 0) /\ "export" \in trace[p]
        /\ pre[p] # EmptyDir
        /\ archive = zip_of(pre[p])

\* a name that enumeration shows as registered has a script that can be
\* executed and that prints the manifest its sidecar holds
Sound(dir, n) ==
    n \in NamesOf(load_manifests(dir)) =>
        /\ Exists(dir, n) /\ dir[n].exec
        /\ Exists(dir, Sidecar(n))
        /\ from_slice(Introspect(dir[n].bytes).stdout) = from_slice(dir[Sidecar(n)].bytes)

\* C17 (as claimed): an `add` that dies at any point after its manifest was
\* parsed, for a fresh name or over a plugin already registered, leaves the
\* name either not enumerated or enumerated with an executable script that
\* matches its sidecar, provided that was so when the `add` began.
C17_CrashLeavesNoHalfPlugin ==
    \A p \in Procs :
        (/\ Cmd(p) = <<"add">> /\ Done(p) /\ exit[p] = Killed
         /\ man[p] # NoManifest
         /\ Sound(pre[p], man[p].name))
        => Sound(files, man[p].name)

\* C18 (as claimed): when two invocations of `remove p` that ran at the
\* same time are both through, both have returned Ok and the registry holds
\* neither the script nor the sidecar of p.
C18_ConcurrentRemovesBothSucceed ==
    (\A p \in Procs : Cmd(p) = <<"remove">> /\ Done(p) /\ "chk_script" \in trace[p]) =>
        /\ \A p \in Procs : exit[p] = ExitCode(0)
        /\ \A p \in Procs :
              ~Exists(files, RemoveName(p)) /\ ~Exists(files, Sidecar(RemoveName(p)))

\* the plugin name an `add` that parsed a manifest, or a `remove`, works on
Target(p) == IF Cmd(p) = <<"add">> THEN man[p].name ELSE RemoveName(p)

\* C19 (as claimed): in sequential use, an `add` that admits under the name
\* n, or a `remove n`, leaves the script and the sidecar of every other
\* registered plugin in the registry, with the same bytes and mode.
C19_OnlyTheNamedPlugin ==
    \A p \in Procs :
        (/\ Done(p)
         /\ \/ Cmd(p) = <<"add">> /\ man[p] # NoManifest
            \/ Cmd(p) = <<"remove">> /\ "chk_script" \in trace[p])
        => \A m \in PluginNames \ {Target(p)} :
              (HasScript(pre[p], m) /\ HasSidecar(pre[p], m)) =>
                  \A f \in {m, Sidecar(m)} : Exists(files, f) /\ files[f] = pre[p][f]

\* C20 (as claimed): when two `add` of different scripts whose manifests
\* have the same name, running at the same time, have both returned Ok, the
\* stored script and the stored sidecar of that name are those of one and
\* the same of the two admissions.
C20_ScriptAndSidecarOfOneAdmission ==
    (/\ \A p \in Procs : Cmd(p) = <<"add">> /\ Admitted(p)
     /\ \A p, q \in Procs : man[p].name = man[q].name
     /\ \E p, q \in Procs : cur[p].bytes # cur[q].bytes)
    => \E p \in Procs :
          /\ Exists(files, man[p].name) /\ Exists(files, Sidecar(man[p].name))
          /\ files[man[p].name].bytes = cur[p].bytes
          /\ files[Sidecar(man[p].name)].bytes = to_vec_pretty(man[p])

====
